---------------------------- MODULE Spec2Model ----------------------------
(***************************************************************************)
(* A model of go-csp-engine: the source-list matcher (source.go), the      *)
(* policy parser and resolver (policy.go) and the page validator (html.go).*)
(* Go strings are TLA+ strings, taken apart with Len, SubSeq and \o.       *)
(***************************************************************************)
EXTENDS Integers, Sequences, FiniteSets, TLC

(***************************************************************************)
(* Bounds of the model.                                                    *)
(***************************************************************************)
\* the longest source list handed to ParseSourceDirective
MaxSources == 2
\* the largest number of directive definitions in a policy string
MaxDirectives == 2
\* the largest number of elements in a document
MaxElems == 2

\* the longest stylesheet, in rules
MaxRules == 2

(***************************************************************************)
(* The Go strings package.                                                 *)
(***************************************************************************)
CharAt(s, i) == SubSeq(s, i, i)

From(s, i) == SubSeq(s, i, Len(s))

HasPrefix(s, prefix) ==
    Len(s) >= Len(prefix) /\ SubSeq(s, 1, Len(prefix)) = prefix

HasSuffix(s, suffix) ==
    Len(s) >= Len(suffix) /\ From(s, Len(s) - Len(suffix) + 1) = suffix

\* the least index >= i at which the one-character string c occurs, or 0
RECURSIVE IndexFrom(_, _, _)
IndexFrom(s, c, i) ==
    IF i > Len(s) THEN 0
    ELSE IF CharAt(s, i) = c THEN i
    ELSE IndexFrom(s, c, i + 1)

\* strings.Split(s, sep) for a one-character separator: Split("", ";") is
\* the one-element list holding the empty string
RECURSIVE Split(_, _)
Split(s, sep) ==
    LET At(i) == IF i = 0 THEN <<s>>
                 ELSE <<SubSeq(s, 1, i - 1)>> \o Split(From(s, i + 1), sep)
    IN  At(IndexFrom(s, sep, 1))

RECURSIVE NonEmpty(_)
NonEmpty(parts) ==
    IF parts = <<>> THEN <<>>
    ELSE IF Head(parts) = "" THEN NonEmpty(Tail(parts))
    ELSE <<Head(parts)>> \o NonEmpty(Tail(parts))

\* strings.Fields(s): the maximal runs of non-space characters
Fields(s) == NonEmpty(Split(s, " "))

RECURSIVE Join(_, _)
Join(parts, sep) ==
    IF parts = <<>> THEN ""
    ELSE IF Len(parts) = 1 THEN Head(parts)
    ELSE Head(parts) \o sep \o Join(Tail(parts), sep)

\* strings.TrimSpace
RECURSIVE TrimSpace(_)
TrimSpace(s) ==
    IF HasPrefix(s, " ") THEN TrimSpace(From(s, 2))
    ELSE IF HasSuffix(s, " ") THEN TrimSpace(SubSeq(s, 1, Len(s) - 1))
    ELSE s

(***************************************************************************)
(* net/url: a URL is its scheme, host and path.                            *)
(***************************************************************************)
ZeroURL == [Scheme |-> "", Host |-> "", Path |-> ""]

\* url.URL.String() of a URL without user, opaque part, query or fragment
URLString(u) ==
    (IF u.Scheme # "" THEN u.Scheme \o ":" ELSE "")
    \o (IF (u.Scheme # "" \/ u.Host # "") /\ (u.Host # "" \/ u.Path # "")
        THEN "//" ELSE "")
    \o u.Host \o u.Path

\* urlSchemeHost with the path left in place
urlSchemeHost_KeepPath(u) == URLString(u)

urlSchemeHost(u) == URLString([u EXCEPT !.Path = ""])

SchemeChars ==
    { "a", "b", "c", "d", "e", "f", "g", "h", "i", "j", "k", "l", "m",
      "n", "o", "p", "q", "r", "s", "t", "u", "v", "w", "x", "y", "z" }

\* net/url getscheme: the length of the scheme that starts s, 0 when s has
\* none, -1 when s starts with a colon ("missing protocol scheme")
RECURSIVE SchemeLen(_, _)
SchemeLen(s, i) ==
    IF i > Len(s) THEN 0
    ELSE IF CharAt(s, i) = ":" THEN (IF i = 1 THEN -1 ELSE i - 1)
    ELSE IF CharAt(s, i) \in SchemeChars THEN SchemeLen(s, i + 1)
    ELSE 0

\* url.Parse(s) for references of the forms scheme://host/path, //host/path
\* and path
URLParse(s) ==
    LET Authority(scheme, auth, cut) ==
            [u |-> [Scheme |-> scheme,
                    Host   |-> IF cut = 0 THEN auth ELSE SubSeq(auth, 1, cut - 1),
                    Path   |-> IF cut = 0 THEN "" ELSE From(auth, cut)],
             err |-> FALSE]
        Rest(scheme, rest) ==
            IF HasPrefix(rest, "//")
            THEN Authority(scheme, From(rest, 3), IndexFrom(From(rest, 3), "/", 1))
            ELSE [u |-> [Scheme |-> scheme, Host |-> "", Path |-> rest],
                  err |-> FALSE]
        Scheme(n) ==
            IF n = -1 THEN [u |-> ZeroURL, err |-> TRUE]
            ELSE Rest(SubSeq(s, 1, n), IF n > 0 THEN From(s, n + 2) ELSE s)
    IN  Scheme(SchemeLen(s, 1))

\* the error url.Parse returns for s
ParseError(s) == "parse " \o s \o ": missing protocol scheme"

\* the last index at which the one-character string c occurs in s, or 0
RECURSIVE LastIndex(_, _, _)
LastIndex(s, c, i) ==
    IF i = 0 THEN 0
    ELSE IF CharAt(s, i) = c THEN i
    ELSE LastIndex(s, c, i - 1)

\* net/url resolvePath, for paths without dot segments
ResolvePath(base, ref) ==
    LET Rooted(full) == IF full = "" THEN ""
                        ELSE IF HasPrefix(full, "/") THEN full
                        ELSE "/" \o full
    IN  Rooted(IF ref = "" THEN base
               ELSE IF HasPrefix(ref, "/") THEN ref
               ELSE SubSeq(base, 1, LastIndex(base, "/", Len(base))) \o ref)

\* base.ResolveReference(ref)
ResolveReference(base, ref) ==
    IF ref.Scheme # "" \/ ref.Host # ""
    THEN [Scheme |-> IF ref.Scheme # "" THEN ref.Scheme ELSE base.Scheme,
          Host   |-> ref.Host,
          Path   |-> ResolvePath(ref.Path, "")]
    ELSE IF ref.Path = "" THEN base
    ELSE [Scheme |-> base.Scheme, Host |-> base.Host,
          Path   |-> ResolvePath(base.Path, ref.Path)]

(***************************************************************************)
(* github.com/gobwas/glob: a compiled pattern is its text and its set of   *)
(* separators.  After sanitizeGlob every character but * is a literal; *   *)
(* matches a run of non-separators and ** a run of any characters.         *)
(***************************************************************************)
RECURSIVE NoSeparator(_, _)
NoSeparator(s, seps) ==
    s = "" \/ (CharAt(s, 1) \notin seps /\ NoSeparator(From(s, 2), seps))

RECURSIVE GlobMatch(_, _, _)
GlobMatch(pat, s, seps) ==
    IF pat = "" THEN s = ""
    ELSE IF HasPrefix(pat, "**")
    THEN \E k \in 0..Len(s) : GlobMatch(From(pat, 3), From(s, k + 1), seps)
    ELSE IF HasPrefix(pat, "*")
    THEN \E k \in 0..Len(s) :
            /\ NoSeparator(SubSeq(s, 1, k), seps)
            /\ GlobMatch(From(pat, 2), From(s, k + 1), seps)
    ELSE /\ s # ""
         /\ CharAt(pat, 1) = CharAt(s, 1)
         /\ GlobMatch(From(pat, 2), From(s, 2), seps)

\* glob.Compile(sanitizeGlob(source), '/')
sanitizeGlob(pattern) == Join(Split(pattern, "*"), "*")

Compile(pattern, seps) == [pattern |-> pattern, seps |-> seps]

Match(g, s) == GlobMatch(g.pattern, s, g.seps)


(***************************************************************************)
(* source.go: SourceDirective.                                             *)
(***************************************************************************)
\* base64.StdEncoding.EncodeToString(h.Sum(nil)) of the body under the
\* algorithm: a symbolic digest, distinct for distinct (algorithm, body)
Digest(alg, body) == "b64<" \o alg \o "|" \o body \o ">"

WordChars ==
    { "a", "b", "c", "d", "e", "f", "g", "h", "i", "j", "k", "l", "m",
      "n", "o", "p", "q", "r", "s", "t", "u", "v", "w", "x", "y", "z",
      "0", "1", "2", "3", "4", "5", "6", "7", "8", "9", "_" }

\* hostSchemeRegex.MatchString(source): the expression is not anchored and
\* all of it but (\*|\w+) is optional, so it matches exactly the strings
\* that hold a * or a word character
hostSchemeRegex(source) ==
    \E i \in 1..Len(source) : CharAt(source, i) \in WordChars \cup {"*"}

\* SourceDirective{Nonces: map[string]bool{}, Schemes: map[string]bool{}}
EmptySourceDirective ==
    [ kind         |-> "source",
      ruleCount    |-> 0,
      None         |-> FALSE,
      Nonces       |-> {},
      Hashes       |-> <<>>,
      UnsafeEval   |-> FALSE,
      UnsafeInline |-> FALSE,
      Self         |-> FALSE,
      Schemes      |-> {},
      Hosts        |-> <<>> ]

AllowDirective == [kind |-> "allow"]

HashAlgorithms == {"sha256", "sha384", "sha512"}

\* the quoted branch of ParseSource, after the keyword switch
ParseQuoted(s, source) ==
    LET Parts(parts) ==
            IF Len(parts) = 2 /\ parts[1] = "nonce"
            THEN [s |-> [s EXCEPT !.Nonces = @ \cup {parts[2]}], err |-> FALSE]
            ELSE IF Len(parts) = 2 /\ parts[1] \in HashAlgorithms
            THEN [s |-> [s EXCEPT !.Hashes =
                            Append(@, [Algorithm |-> parts[1], Value |-> parts[2]])],
                  err |-> FALSE]
            ELSE [s |-> s, err |-> TRUE]
    IN  Parts(Split(SubSeq(source, 2, Len(source) - 1), "-"))

\* ParseSource adds one source to s; err says "unknown source"
ParseSource(s0, source) ==
    LET s == [s0 EXCEPT !.ruleCount = @ + 1]
    IN  IF HasPrefix(source, "'") /\ HasSuffix(source, "'")
        THEN CASE source = "'self'" ->
                    [s |-> [s EXCEPT !.Self = TRUE], err |-> FALSE]
               [] source = "'unsafe-inline'" ->
                    [s |-> [s EXCEPT !.UnsafeInline = TRUE], err |-> FALSE]
               [] source = "'unsafe-eval'" ->
                    [s |-> [s EXCEPT !.UnsafeEval = TRUE], err |-> FALSE]
               [] source = "'none'" ->
                    [s |-> [s EXCEPT !.None = TRUE], err |-> FALSE]
               [] source \in {"'strict-dynamic'", "'report-sample'"} ->
                    [s |-> s, err |-> FALSE]
               [] OTHER -> ParseQuoted(s, source)
        ELSE IF HasSuffix(source, ":")
        THEN [s |-> [s EXCEPT !.Schemes =
                        @ \cup {SubSeq(source, 1, Len(source) - 1)}],
              err |-> FALSE]
        ELSE IF hostSchemeRegex(source)
        THEN LET Hosts(pattern) ==
                    [s |-> [s EXCEPT !.Hosts =
                                @ \o << Compile(pattern, {"/"}),
                                        Compile("*://" \o pattern, {"/"}) >>],
                     err |-> FALSE]
             IN  Hosts(sanitizeGlob(source))
        ELSE [s |-> s, err |-> TRUE]

\* Validate: 'none' must be the only source
Validate(s) == ~(s.None /\ s.ruleCount # 1)

RECURSIVE ParseSources(_, _)
ParseSources(s, sources) ==
    IF sources = <<>> THEN [s |-> s, err |-> FALSE]
    ELSE LET Parsed(r) == IF r.err THEN r ELSE ParseSources(r.s, Tail(sources))
         IN  Parsed(ParseSource(s, Head(sources)))

\* the zero SourceDirective returned beside an error: its maps are nil
ZeroSourceDirective == EmptySourceDirective

ParseSourceDirective(sources) ==
    LET Parsed(r) == IF r.err \/ ~Validate(r.s)
                     THEN [s |-> ZeroSourceDirective, err |-> TRUE]
                     ELSE [s |-> r.s, err |-> FALSE]
    IN  Parsed(ParseSources(EmptySourceDirective, sources))

\* HashSource.Check
HashCheck(hash, ctx) == hash.Value = Digest(hash.Algorithm, ctx.Body)

\* the rules of SourceDirective.Check, in the order the code tries them
InlineAllowed(s, ctx) ==
    ctx.UnsafeInline /\ Cardinality(s.Nonces) = 0 /\ s.UnsafeInline

\* the 'self' rule with the schemes left uncompared
SelfAllowed_HostOnly(s, ctx) == s.Self /\ ctx.URL.Host = ctx.Page.Host

SelfAllowed(s, ctx) ==
    s.Self /\ ctx.URL.Host = ctx.Page.Host /\ ctx.URL.Scheme = ctx.Page.Scheme

SchemeAllowed(s, ctx) ==
    \/ ctx.URL.Scheme \in s.Schemes
    \/ ("http" \in s.Schemes /\ ctx.URL.Scheme = "https")

NonceAllowed(s, ctx) == ctx.Nonce \in s.Nonces

HashAllowed(s, ctx) == \E i \in 1..Len(s.Hashes) : HashCheck(s.Hashes[i], ctx)

HostAllowed(s, ctx) ==
    LET srcHost == urlSchemeHost(ctx.URL)
    IN  \E i \in 1..Len(s.Hosts) : Match(s.Hosts[i], srcHost)

\* originAllow and isUnsafe as the code leaves them before its last line
OriginAllow(s, ctx) ==
    \/ InlineAllowed(s, ctx)
    \/ SelfAllowed(s, ctx)
    \/ SchemeAllowed(s, ctx)
    \/ NonceAllowed(s, ctx)
    \/ HashAllowed(s, ctx)
    \/ HostAllowed(s, ctx)

\* isUnsafe cleared by a 'self', scheme or host match as well
IsUnsafe_HostClears(s, ctx) ==
    /\ ctx.UnsafeInline
    /\ ~OriginAllow(s, ctx)

IsUnsafe(s, ctx) ==
    /\ ctx.UnsafeInline
    /\ ~(InlineAllowed(s, ctx) \/ NonceAllowed(s, ctx) \/ HashAllowed(s, ctx))

\* SourceDirective.Check returning true for a 'none' directive
SourceCheck_NoneAllows(s, ctx) ==
    IF s.None THEN TRUE
    ELSE IF ctx.UnsafeEval /\ ~s.UnsafeEval THEN FALSE
    ELSE OriginAllow(s, ctx) /\ ~IsUnsafe(s, ctx)

\* SourceDirective.Check; hashing in-memory bytes never fails, so the error
\* result is always nil and only the boolean is modelled
SourceCheck(s, ctx) ==
    IF s.None THEN FALSE
    ELSE IF ctx.UnsafeEval /\ ~s.UnsafeEval THEN FALSE
    ELSE OriginAllow(s, ctx) /\ ~IsUnsafe(s, ctx)

\* Directive.Check, for either kind of rule
Check(d, ctx) ==
    IF d.kind = "allow" THEN TRUE ELSE SourceCheck(d, ctx)

\* directive.Check(p, ctx), as the newest ValidatePage calls it.  The source
\* tree holds no Check that takes the policy; the specification's Check
\* (section 4.1) reads the context alone, which is what this evaluates.
CheckPolicy(p, d, ctx) == Check(d, ctx)


(***************************************************************************)
(* policy.go: Policy.                                                      *)
(***************************************************************************)
SourceDirectiveNames ==
    { "base-uri", "child-src", "connect-src", "default-src", "font-src",
      "form-action", "frame-ancestors", "frame-src", "img-src",
      "manifest-src", "media-src", "object-src", "script-src", "style-src",
      "worker-src" }

\* Policy{Directives: map[string]Directive{}}; the zero Policy returned
\* beside an error has a nil map, which reads as an empty one
EmptyPolicy ==
    [ Directives              |-> [n \in {} |-> AllowDirective],
      UpgradeInsecureRequests |-> FALSE,
      BlockAllMixedContent    |-> FALSE ]

\* p.Directives[name] = d
SetDirective(p, name, d) ==
    [p EXCEPT !.Directives =
        [n \in DOMAIN @ \cup {name} |-> IF n = name THEN d ELSE @[n]]]

\* the body of the loop of ParsePolicy, for one directive definition
ParseDirectiveDef(p, directive) ==
    LET failed == [p |-> p, err |-> TRUE]
        Source(directiveType, d) ==
            IF d.err THEN failed
            ELSE [p |-> SetDirective(p, directiveType, d.s), err |-> FALSE]
        Def(fields) ==
            IF Len(fields) = 0 THEN failed
            ELSE IF fields[1] \in SourceDirectiveNames
            THEN Source(fields[1], ParseSourceDirective(Tail(fields)))
            ELSE IF fields[1] = "report-uri"
            THEN IF Len(fields) # 2 \/ URLParse(fields[2]).err THEN failed
                 ELSE [p |-> p, err |-> FALSE]
            ELSE IF fields[1] = "upgrade-insecure-requests"
            THEN IF Len(fields) # 1 THEN failed
                 ELSE [p |-> [p EXCEPT !.UpgradeInsecureRequests = TRUE],
                       err |-> FALSE]
            ELSE IF fields[1] = "block-all-mixed-content"
            THEN IF Len(fields) # 1 THEN failed
                 ELSE [p |-> [p EXCEPT !.BlockAllMixedContent = TRUE],
                       err |-> FALSE]
            ELSE failed
    IN  Def(Fields(directive))

RECURSIVE ParseDirectiveDefs(_, _)
ParseDirectiveDefs(p, defs) ==
    IF defs = <<>> THEN [p |-> p, err |-> FALSE]
    ELSE LET Parsed(r) == IF r.err THEN r
                          ELSE ParseDirectiveDefs(r.p, Tail(defs))
         IN  Parsed(ParseDirectiveDef(p, Head(defs)))

\* a ParsePolicy that returns, beside an error, the Policy filled so far
ParsePolicy_Partial(policy) ==
    ParseDirectiveDefs(EmptyPolicy, Split(policy, ";"))

ParsePolicy(policy) ==
    LET Parsed(r) == IF r.err THEN [p |-> EmptyPolicy, err |-> TRUE] ELSE r
    IN  Parsed(ParseDirectiveDefs(EmptyPolicy, Split(policy, ";")))

\* the last resort as the comment on Policy.Directive words it: 'none'
DefaultDirective_None == [EmptySourceDirective EXCEPT !.None = TRUE]

\* the rule of the last resort of Policy.Directive: glob.Compile("*://*"),
\* compiled without separators
DefaultDirective ==
    [EmptySourceDirective EXCEPT !.Hosts = <<Compile("*://*", {})>>]

\* Policy.Directive with the default-src fallback tried before the
\* frame-ancestors rule
Directive_DefaultFirst(p, name) ==
    IF name \in DOMAIN p.Directives THEN p.Directives[name]
    ELSE IF "default-src" \in DOMAIN p.Directives
    THEN p.Directives["default-src"]
    ELSE IF name = "frame-ancestors" THEN AllowDirective
    ELSE DefaultDirective

\* Policy.Directive(name)
Directive(p, name) ==
    IF name \in DOMAIN p.Directives THEN p.Directives[name]
    ELSE IF name = "frame-ancestors" THEN AllowDirective
    ELSE IF "default-src" \in DOMAIN p.Directives
    THEN p.Directives["default-src"]
    ELSE DefaultDirective

(***************************************************************************)
(* html.go: ValidateStylesheet and ValidatePage.  The document and the     *)
(* stylesheets come parsed: a document is the sequence of its elements, a  *)
(* stylesheet the sequence of its rules.                                   *)
(***************************************************************************)
\* SourceContext{Page: page}, the zero value but for the page
ZeroContext(page) ==
    [ URL          |-> ZeroURL,
      Page         |-> page,
      UnsafeInline |-> FALSE,
      UnsafeEval   |-> FALSE,
      Nonce        |-> "",
      Body         |-> "" ]

\* SourceContext.Report
Report(c, directiveName, directive) ==
    [ Document      |-> URLString(c.Page),
      Blocked       |-> URLString(c.URL),
      DirectiveName |-> directiveName,
      Directive     |-> directive,
      Context       |-> c ]

urlFormats ==
    << [prefix |-> "url(\"", suffix |-> "\")"],
       [prefix |-> "url('", suffix |-> "')"],
       [prefix |-> "url(", suffix |-> ")"],
       [prefix |-> "\"", suffix |-> "\""],
       [prefix |-> "'", suffix |-> "'"] >>

\* parseCSSURL(s): the text between the first format's prefix and suffix
\* that s has; slicing a string shorter than prefix and suffix together
\* panics
parseCSSURL(s) ==
    LET fits == { i \in 1..Len(urlFormats) :
                    HasPrefix(s, urlFormats[i].prefix)
                    /\ HasSuffix(s, urlFormats[i].suffix) }
    IN  IF fits = {} THEN [url |-> "", err |-> "invalid URL or string: " \o s]
        ELSE LET f == urlFormats[CHOOSE i \in fits : \A k \in fits : i <= k]
             IN  IF Len(s) < Len(f.prefix) + Len(f.suffix)
                 THEN [url |-> "", err |-> "panic"]
                 ELSE [url |-> SubSeq(s, Len(f.prefix) + 1, Len(s) - Len(f.suffix)),
                       err |-> ""]

\* what a step of ValidateStylesheet yields: the reports it adds, the Checks
\* it made (a log the model keeps) and the error it returns with, if any
Step(reports, checks, err) == [reports |-> reports, checks |-> checks, err |-> err]

\* what a loop of ValidateStylesheet has after one more step: the first
\* error returns at once, else the reports of the step are appended
ThenRest(one, rest) ==
    IF one.err # "" THEN one
    ELSE IF rest.err # "" THEN Step(<<>>, one.checks \o rest.checks, rest.err)
    ELSE Step(one.reports \o rest.reports, one.checks \o rest.checks, "")

\* the check of one URL text of a stylesheet against a rule: the reports it
\* adds, or the error that ends ValidateStylesheet
CheckCSSURL(page, text, directiveName, directive) ==
    LET Reported(c, v) ==
            Step(IF v THEN <<>> ELSE <<Report(c, directiveName, directive)>>,
                 <<[name |-> directiveName, ctx |-> c, allowed |-> v]>>, "")
        Checked(c) == Reported(c, Check(directive, c))
        Parsed(imp, parsed) ==
            IF parsed.err THEN Step(<<>>, <<>>, ParseError(imp))
            ELSE Checked([ZeroContext(page) EXCEPT
                            !.URL = ResolveReference(page, parsed.u)])
        Imported(imp) ==
            IF imp.err # "" THEN Step(<<>>, <<>>, imp.err)
            ELSE Parsed(imp.url, URLParse(imp.url))
    IN  Imported(parseCSSURL(text))

\* the loop over the parts of one src declaration of an @font-face rule;
\* fields[0] of a part without fields panics
RECURSIVE FontFaceParts(_, _, _)
FontFaceParts(page, parts, directiveFont) ==
    IF parts = <<>> THEN Step(<<>>, <<>>, "")
    ELSE LET Source(fields) ==
                IF fields = <<>> THEN Step(<<>>, <<>>, "panic")
                ELSE CheckCSSURL(page, fields[1], "font-src", directiveFont)
             Part(part) ==
                IF HasPrefix(part, "local(") THEN Step(<<>>, <<>>, "")
                ELSE Source(Fields(part))
         IN  ThenRest(Part(TrimSpace(Head(parts))),
                      FontFaceParts(page, Tail(parts), directiveFont))

\* the loop over the declarations of an @font-face rule
RECURSIVE FontFaceDeclarations(_, _, _)
FontFaceDeclarations(page, decls, directiveFont) ==
    IF decls = <<>> THEN Step(<<>>, <<>>, "")
    ELSE ThenRest(IF Head(decls).Property # "src"
                  THEN Step(<<>>, <<>>, "")
                  ELSE FontFaceParts(page, Split(Head(decls).Value, ","),
                                     directiveFont),
                  FontFaceDeclarations(page, Tail(decls), directiveFont))

\* the loop over the rules of the stylesheet
RECURSIVE StylesheetRules(_, _, _, _)
StylesheetRules(page, rules, directive, directiveFont) ==
    IF rules = <<>> THEN Step(<<>>, <<>>, "")
    ELSE LET Import(parts) ==
                IF parts = <<>> THEN Step(<<>>, <<>>, "@import empty")
                ELSE CheckCSSURL(page, parts[1], "style-src", directive)
             Rule(r) ==
                IF r.Name = "@import" THEN Import(Fields(r.Prelude))
                ELSE IF r.Name = "@font-face"
                THEN FontFaceDeclarations(page, r.Declarations, directiveFont)
                ELSE Step(<<>>, <<>>, "")
         IN  ThenRest(Rule(Head(rules)),
                      StylesheetRules(page, Tail(rules), directive, directiveFont))

\* a ValidateStylesheet that checks font URLs against the rule of style-src
ValidateStylesheet_FontAsStyle(p, page, rules) ==
    LET Result(r) ==
            [valid |-> r.err = "" /\ r.reports = <<>>, reports |-> r.reports,
             err |-> r.err, checks |-> r.checks]
    IN  Result(StylesheetRules(page, rules, Directive(p, "style-src"),
                               Directive(p, "style-src")))

\* ValidateStylesheet(p, page, css): err is "" (nil), the message of the
\* error returned, or "panic"; beside an error the reports are nil
ValidateStylesheet(p, page, rules) ==
    LET Result(r) ==
            [valid |-> r.err = "" /\ r.reports = <<>>, reports |-> r.reports,
             err |-> r.err, checks |-> r.checks]
    IN  Result(StylesheetRules(page, rules, Directive(p, "style-src"),
                               Directive(p, "font-src")))

htmlDirectiveElements ==
    [ n \in {"script-src", "img-src", "media-src", "frame-src", "object-src",
             "style-src"} |->
        CASE n = "script-src" -> {"script"}
          [] n = "img-src"    -> {"img"}
          [] n = "media-src"  -> {"audio", "video", "track"}
          [] n = "frame-src"  -> {"iframe"}
          [] n = "object-src" -> {"object", "embed", "applet"}
          [] n = "style-src"  -> {"style"} ]

htmlPassiveElements == {"img", "audio", "video", "object"}

\* the rel values of the link elements, and base, that hrefTypes selects
hrefTypes ==
    [ n \in {"base-uri", "style-src", "prefetch-src", "manifest-src", "img-src"} |->
        CASE n = "base-uri"     -> {[tag |-> "base", rel |-> ""]}
          [] n = "style-src"    -> {[tag |-> "link", rel |-> "stylesheet"]}
          [] n = "prefetch-src" -> {[tag |-> "link", rel |-> "prefetch"],
                                    [tag |-> "link", rel |-> "prerender"]}
          [] n = "manifest-src" -> {[tag |-> "link", rel |-> "manifest"]}
          [] n = "img-src"      -> {[tag |-> "link", rel |-> "icon"],
                                    [tag |-> "link", rel |-> "apple-touch-icon"]} ]

\* the upgrade with block-all-mixed-content left out of the condition
ShouldUpgrade_IgnoreBlock(p, c, passiveContent) ==
    /\ c.Page.Scheme = "https"
    /\ c.URL.Scheme = "http"
    /\ (passiveContent \/ p.UpgradeInsecureRequests)

\* the mixed-content upgrade of ValidatePage
ShouldUpgrade(p, c, passiveContent) ==
    /\ c.Page.Scheme = "https"
    /\ c.URL.Scheme = "http"
    /\ ((passiveContent /\ ~p.BlockAllMixedContent) \/ p.UpgradeInsecureRequests)

Upgrade(p, c, passiveContent) ==
    IF ShouldUpgrade(p, c, passiveContent) THEN [c EXCEPT !.URL.Scheme = "https"]
    ELSE c

\* what the validation has gathered: the reports, the contexts checked (a
\* log the model keeps of every Check the code makes) and err2
Gathered(reports, checks, err) == [reports |-> reports, checks |-> checks, err |-> err]

\* the callback of the first loop of ValidatePage, on element e
SrcElement(p, page, directiveName, directive, e, g) ==
    LET c0 == [ZeroContext(page) EXCEPT !.Nonce = e.nonce]
        Scanned(checks) ==
            [i \in 1..Len(checks) |->
                [elem |-> e, from |-> "css", name |-> checks[i].name,
                 ctx |-> checks[i].ctx, allowed |-> checks[i].allowed]]
        Styled(gathered, css) ==
            IF css.err # ""
            THEN [gathered EXCEPT !.err = css.err,
                                  !.checks = @ \o Scanned(css.checks)]
            ELSE [gathered EXCEPT !.reports = @ \o css.reports,
                                  !.checks = @ \o Scanned(css.checks)]
        Checked(c, v) ==
            LET gathered ==
                    Gathered(IF v THEN g.reports
                             ELSE Append(g.reports,
                                         Report(c, directiveName, directive)),
                             Append(g.checks,
                                    [elem |-> e, from |-> "src",
                                     name |-> directiveName, ctx |-> c,
                                     allowed |-> v]),
                             g.err)
            IN  IF e.tag # "style" THEN gathered
                ELSE Styled(gathered, ValidateStylesheet(p, page, e.rules))
        Built(c) == Checked(c, CheckPolicy(p, directive, c))
        Parsed(parsed) ==
            IF e.src # "" /\ parsed.err THEN [g EXCEPT !.err = ParseError(e.src)]
            ELSE Built(Upgrade(p,
                               IF e.src # ""
                               THEN [c0 EXCEPT !.URL = ResolveReference(page, parsed.u)]
                               ELSE [c0 EXCEPT !.Body = e.text, !.UnsafeInline = TRUE],
                               e.tag \in htmlPassiveElements))
    IN  Parsed(URLParse(e.src))

\* the callback of the second loop of ValidatePage, on element e
HrefElement(p, page, directiveName, directive, e, g) ==
    LET c0 == [ZeroContext(page) EXCEPT !.Nonce = e.nonce]
        Checked(c, v) ==
            Gathered(IF v THEN g.reports
                     ELSE Append(g.reports, Report(c, directiveName, directive)),
                     Append(g.checks,
                            [elem |-> e, from |-> "href", name |-> directiveName,
                             ctx |-> c, allowed |-> v]),
                     g.err)
        Built(c) == Checked(c, CheckPolicy(p, directive, c))
        Parsed(parsed) ==
            IF e.href # "" /\ parsed.err THEN [g EXCEPT !.err = ParseError(e.href)]
            ELSE Built(IF e.href # ""
                       THEN [c0 EXCEPT !.URL = ResolveReference(page, parsed.u)]
                       ELSE c0)
    IN  Parsed(URLParse(e.href))

\* doc.Find(elems).Each(callback): the callback runs on every selected
\* element in document order; a return inside it ends that one call, and a
\* panic ends the program
RECURSIVE Each(_, _, _, _, _, _, _)
Each(p, page, directiveName, directive, doc, src, g) ==
    IF doc = <<>> \/ g.err = "panic" THEN g
    ELSE LET e == Head(doc)
             selected ==
                IF src THEN e.tag \in htmlDirectiveElements[directiveName]
                ELSE [tag |-> e.tag, rel |-> e.rel] \in hrefTypes[directiveName]
             g1 == IF ~selected THEN g
                   ELSE IF src
                   THEN SrcElement(p, page, directiveName, directive, e, g)
                   ELSE HrefElement(p, page, directiveName, directive, e, g)
         IN  Each(p, page, directiveName, directive, Tail(doc), src, g1)

\* one loop of ValidatePage over the names of a table, in the order the
\* map iteration yields them; the loop returns at the first name whose
\* elements left an error in err2
RECURSIVE Loop(_, _, _, _, _, _)
Loop(p, page, doc, order, src, g) ==
    IF order = <<>> \/ g.err # "" THEN g
    ELSE Loop(p, page, doc, Tail(order), src,
              Each(p, page, Head(order), Directive(p, Head(order)), doc, src, g))

\* ValidatePage(p, page, html) when the maps iterate in the orders given
ValidatePage(p, page, doc, srcOrder, hrefOrder) ==
    LET Result(g) ==
            IF g.err # ""
            THEN [valid |-> FALSE, reports |-> <<>>, err |-> g.err,
                  checks |-> g.checks]
            ELSE [valid |-> g.reports = <<>>, reports |-> g.reports, err |-> "",
                  checks |-> g.checks]
    IN  Result(Loop(p, page, doc, hrefOrder, FALSE,
                    Loop(p, page, doc, srcOrder, TRUE, Gathered(<<>>, <<>>, ""))))

(***************************************************************************)
(* The inputs the model draws from.                                        *)
(***************************************************************************)
RECURSIVE SeqsUpTo(_, _)
SeqsUpTo(S, n) ==
    IF n = 0 THEN {<<>>}
    ELSE LET shorter == SeqsUpTo(S, n - 1)
         IN  shorter \cup { Append(q, x) : q \in shorter, x \in S }

\* the sequences of at most n distinct members of S
DistinctSeqsUpTo(S, n) ==
    { q \in SeqsUpTo(S, n) : \A i, j \in 1..Len(q) : q[i] = q[j] => i = j }

SourceTokens ==
    { "'none'", "'self'", "'unsafe-inline'", "'unsafe-eval'",
      "'nonce-foo'", "'nonce-'",
      "'sha256-" \o Digest("sha256", "foo") \o "'",
      "https:", "example.com", "*.example.com", "'bogus'",
      "ex@mple", "@" }

SourceLists == SeqsUpTo(SourceTokens, MaxSources)

\* directive definitions, the last five of them malformed
DirectiveDefs ==
    { "default-src 'self'", "script-src *", "img-src https:",
      "style-src 'unsafe-inline'", "script-src 'none'",
      "upgrade-insecure-requests", "block-all-mixed-content",
      "", "bogus-src *", "report-uri", "default-src 'none' 'self'",
      "block-all-mixed-content on" }

\* the policy strings: definitions joined as in "script-src *; default-src 'self'"
PolicyStrings ==
    { Join(defs, "; ") :
        defs \in DistinctSeqsUpTo(DirectiveDefs, MaxDirectives) \ {<<>>} }

\* the names a caller resolves
ResolvedNames == {"script-src", "img-src", "frame-ancestors", "default-src"}

Pages ==
    { [Scheme |-> "https", Host |-> "example.com", Path |-> "/"],
      [Scheme |-> "http", Host |-> "example.com", Path |-> "/"] }

\* an element of a document: its tag, its attributes (absent ones empty),
\* its text and, for a style element, the rules its text parses to
Element(tag, rel, src, href, nonce, text, rules) ==
    [ tag |-> tag, rel |-> rel, src |-> src, href |-> href, nonce |-> nonce,
      text |-> text, rules |-> rules ]

ImportRule(prelude) ==
    [Name |-> "@import", Prelude |-> prelude, Declarations |-> <<>>]

Elements ==
    { Element("img", "", "http://example.com/x.png", "", "", "", <<>>),
      Element("script", "", "http://example.com/x.js", "", "", "", <<>>),
      Element("script", "", "", "", "foo", "foo", <<>>),
      Element("style", "", "", "", "", "@import url('blah.css')",
              <<ImportRule("url('blah.css')")>>),
      Element("link", "stylesheet", "", "http://sub.example.com/s.css", "", "",
              <<>>) }

FontFaceRule(value) ==
    [Name |-> "@font-face", Prelude |-> "",
     Declarations |-> << [Property |-> "font-family", Value |-> "\"Open Sans\""],
                         [Property |-> "src", Value |-> value] >>]

\* a style element with an @font-face rule, two script elements whose src
\* url.Parse refuses, and a script element it accepts
ScanElements ==
    { Element("style", "", "", "", "",
              "@font-face { font-family: \"Open Sans\"; src: local(x), url(http://example.com/f.woff) format(\"woff\") }",
              <<FontFaceRule("local(x), url(http://example.com/f.woff) format(\"woff\")")>>),
      Element("script", "", ":a", "", "", "", <<>>),
      Element("script", "", ":b", "", "", "", <<>>),
      Element("script", "", "http://example.com/x.js", "", "", "", <<>>) }

\* the documents: the elements of either set, in every order
Documents ==
    DistinctSeqsUpTo(Elements, MaxElems) \cup DistinctSeqsUpTo(ScanElements, MaxElems)

\* the rules of a stylesheet: an @import and an @font-face that scan, an
\* @import without prelude and one with a bare name, and @font-face rules
\* whose src is empty, ends in a comma, or is a bare name
Rules ==
    { ImportRule("url('blah.css')"),
      FontFaceRule("local(x), url(http://example.com/f.woff) format(\"woff\")"),
      ImportRule(""),
      ImportRule("blah.css"),
      FontFaceRule(""),
      FontFaceRule("url(/f.woff),"),
      FontFaceRule("f.woff") }

Stylesheets == DistinctSeqsUpTo(Rules, MaxRules)

\* the orders in which a map iteration may yield the names of S
Orders(S) ==
    { q \in [1..Cardinality(S) -> S] : \A i, j \in 1..Cardinality(S) :
                                            q[i] = q[j] => i = j }

\* the names of a table that select an element of the document: the loop
\* over the others runs no callback, so their place in the order is
\* immaterial
SrcNames(doc) ==
    { n \in DOMAIN htmlDirectiveElements :
        \E i \in 1..Len(doc) : doc[i].tag \in htmlDirectiveElements[n] }

HrefNames(doc) ==
    { n \in DOMAIN hrefTypes :
        \E i \in 1..Len(doc) :
            [tag |-> doc[i].tag, rel |-> doc[i].rel] \in hrefTypes[n] }

PageURL == [Scheme |-> "https", Host |-> "example.com", Path |-> "/"]

ResourceURLs ==
    { ZeroURL,
      [Scheme |-> "https", Host |-> "example.com", Path |-> "/x.js"],
      [Scheme |-> "http", Host |-> "example.com", Path |-> "/x.js"],
      [Scheme |-> "https", Host |-> "sub.example.com", Path |-> "/x.js"],
      [Scheme |-> "http", Host |-> "sub.example.com", Path |-> ""],
      [Scheme |-> "https", Host |-> "evil-example.com", Path |-> "/x.js"] }

\* every SourceContext a caller of Check may build from these parts
Contexts ==
    [ URL          : ResourceURLs,
      Page         : {PageURL},
      UnsafeInline : BOOLEAN,
      UnsafeEval   : BOOLEAN,
      Nonce        : {"", "foo"},
      Body         : {"foo", "bar"} ]

(***************************************************************************)
(* The state: the last call of each operation and what it returned.        *)
(***************************************************************************)
VARIABLES
    pc,         \* "start"; "parsed" once ParseSourceDirective returned;
                \* "policy" once ParsePolicy returned; "resolved" once
                \* Policy.Directive returned; "validated" once
                \* ValidatePage returned; "scanned" once
                \* ValidateStylesheet returned
    sources,    \* the source list given to ParseSourceDirective
    policy,     \* the string given to ParsePolicy
    p,          \* the Policy that ParsePolicy returned
    policyErr,  \* whether ParsePolicy returned an error
    name,       \* the name given to p.Directive
    rule,       \* the Directive in hand: parsed or resolved
    ruleErr,    \* whether ParseSourceDirective returned an error
    ctx,        \* the SourceContext given to rule.Check
    allowed,    \* what that Check returned
    page,       \* the page URL given to ValidatePage or ValidateStylesheet
    doc,        \* the document given to ValidatePage
    result,     \* what ValidatePage returned, and the Checks it made
    css,        \* the stylesheet given to ValidateStylesheet, as its rules
    sheet       \* what ValidateStylesheet returned, and the Checks it made

vars == <<pc, sources, policy, p, policyErr, name, rule, ruleErr, ctx, allowed,
          page, doc, result, css, sheet>>

call == <<page, doc, result, css, sheet>>

\* no rule in hand yet, and no Check made on the rule in hand
NoRule == [kind |-> "none"]

NoContext == [kind |-> "none"]

Init ==
    /\ pc = "start"
    /\ sources = <<>>
    /\ policy = ""
    /\ p = EmptyPolicy
    /\ policyErr = FALSE
    /\ name = ""
    /\ rule = NoRule
    /\ ruleErr = FALSE
    /\ ctx = NoContext
    /\ allowed = FALSE
    /\ page = ZeroURL
    /\ doc = <<>>
    /\ result = [valid |-> FALSE, reports |-> <<>>, err |-> "", checks |-> <<>>]
    /\ css = <<>>
    /\ sheet = [valid |-> FALSE, reports |-> <<>>, err |-> "", checks |-> <<>>]

\* ParseSourceDirective(list); the functions are pure, so one call of each
\* in a behaviour shows all they do
DoParseSourceDirective ==
    /\ pc = "start"
    /\ \E list \in SourceLists :
        LET r == ParseSourceDirective(list)
        IN  /\ sources' = list
            /\ rule' = r.s
            /\ ruleErr' = r.err
    /\ pc' = "parsed"
    /\ UNCHANGED <<policy, p, policyErr, name, ctx, allowed, call>>

\* ParsePolicy(str)
DoParsePolicy ==
    /\ pc = "start"
    /\ \E str \in PolicyStrings :
        LET r == ParsePolicy(str)
        IN  /\ policy' = str
            /\ p' = r.p
            /\ policyErr' = r.err
    /\ pc' = "policy"
    /\ UNCHANGED <<sources, name, rule, ruleErr, ctx, allowed, call>>

\* p.Directive(n), on a policy parsed without error
DoDirective ==
    /\ pc = "policy"
    /\ ~policyErr
    /\ \E n \in ResolvedNames :
        /\ name' = n
        /\ rule' = Directive(p, n)
    /\ pc' = "resolved"
    /\ UNCHANGED <<sources, policy, p, policyErr, ruleErr, ctx, allowed, call>>

\* rule.Check(c), on a rule obtained without error
DoCheck ==
    /\ pc \in {"parsed", "resolved"}
    /\ ~ruleErr
    /\ ctx = NoContext
    /\ \E c \in Contexts :
        /\ ctx' = c
        /\ allowed' = Check(rule, c)
    /\ UNCHANGED <<pc, sources, policy, p, policyErr, name, rule, ruleErr, call>>

\* ValidatePage(p, pg, d), on a policy parsed without error; the two maps
\* of ValidatePage iterate in an order the Go runtime picks
DoValidatePage ==
    /\ pc = "policy"
    /\ ~policyErr
    /\ \E pg \in Pages, d \in Documents :
        \E srcOrder \in Orders(SrcNames(d)), hrefOrder \in Orders(HrefNames(d)) :
            /\ page' = pg
            /\ doc' = d
            /\ result' = ValidatePage(p, pg, d, srcOrder, hrefOrder)
    /\ pc' = "validated"
    /\ UNCHANGED <<sources, policy, p, policyErr, name, rule, ruleErr, ctx, allowed,
                   css, sheet>>

\* ValidateStylesheet(p, pg, rules), on a policy parsed without error
DoValidateStylesheet ==
    /\ pc = "policy"
    /\ ~policyErr
    /\ \E pg \in Pages, rules \in Stylesheets :
            /\ page' = pg
            /\ css' = rules
            /\ sheet' = ValidateStylesheet(p, pg, rules)
    /\ pc' = "scanned"
    /\ UNCHANGED <<sources, policy, p, policyErr, name, rule, ruleErr, ctx, allowed,
                   doc, result>>

NextSource == DoParseSourceDirective \/ DoCheck

SpecSource == Init /\ [][NextSource]_vars

NextPolicy == DoParsePolicy \/ DoDirective \/ DoCheck

SpecPolicy == Init /\ [][NextPolicy]_vars

NextPage == DoParsePolicy \/ DoValidatePage

SpecPage == Init /\ [][NextPage]_vars

NextSheet == DoParsePolicy \/ DoValidateStylesheet

SpecSheet == Init /\ [][NextSheet]_vars

Next ==
    \/ DoParseSourceDirective
    \/ DoParsePolicy
    \/ DoDirective
    \/ DoCheck
    \/ DoValidatePage
    \/ DoValidateStylesheet

Spec == Init /\ [][Next]_vars

(***************************************************************************)
(* Claims about SourceDirective.Check, under SpecSource.                   *)
(***************************************************************************)
\* a Check of a context has been made on the directive parsed from list
CheckedOn(list) == pc = "parsed" /\ ~ruleErr /\ sources = list /\ ctx # NoContext

CheckedParsed == pc = "parsed" /\ ~ruleErr /\ ctx # NoContext

SameOrigin(c) == c.URL.Scheme = c.Page.Scheme /\ c.URL.Host = c.Page.Host

\* C1: the directive parsed from the single token 'none' rejects every
\* context, whatever its URL, page, nonce, body, unsafe_inline, unsafe_eval.
C1_NoneRejectsAll == CheckedOn(<<"'none'">>) => ~allowed

C1_Witness ==
    /\ CheckedOn(<<"'none'">>)
    /\ SameOrigin(ctx) /\ ~ctx.UnsafeInline /\ ~ctx.UnsafeEval
    /\ ~allowed

\* C2, as claimed: a directive with 'unsafe-inline' and no nonce or hash
\* source allows an inline context, and with any nonce source or any hash
\* source added it rejects the inline context that carries no registered
\* nonce and whose body matches no registered hash.  The contexts are those
\* with unsafe_eval = false, which leaves the eval rule out of the matter.
NoHashMatches(c) == \A i \in 1..Len(rule.Hashes) : ~HashCheck(rule.Hashes[i], c)

C2_Claimed ==
    (CheckedParsed /\ rule.UnsafeInline /\ ctx.UnsafeInline /\ ~ctx.UnsafeEval)
    => /\ (rule.Nonces = {} /\ rule.Hashes = <<>>) => allowed
       /\ ((rule.Nonces # {} \/ rule.Hashes # <<>>)
            /\ ctx.Nonce \notin rule.Nonces /\ NoHashMatches(ctx)) => ~allowed

\* C8, as claimed: the directive parsed from 'self' alone allows a context
\* exactly when its URL has the page's scheme and host.
C8_Claimed == CheckedOn(<<"'self'">>) => (allowed <=> SameOrigin(ctx))

\* C8, amended: the directive parsed from 'self' alone allows a context
\* exactly when its URL has the page's scheme and host and the context is
\* neither inline nor eval.
C8_SelfSameOrigin ==
    CheckedOn(<<"'self'">>)
    => (allowed <=> (SameOrigin(ctx) /\ ~ctx.UnsafeInline /\ ~ctx.UnsafeEval))

C8_Witness ==
    /\ CheckedOn(<<"'self'">>)
    /\ SameOrigin(ctx) /\ ~ctx.UnsafeInline /\ ~ctx.UnsafeEval
    /\ allowed

\* C9: a host source with a leading wildcard label matches only true
\* subdomains: *.example.com allows every context, neither inline nor eval,
\* whose URL has host sub.example.com and some scheme, whatever its path,
\* and allows no URL with host example.com or evil-example.com; the bare
\* host example.com allows host example.com under every scheme.
C9_WildcardSubdomains ==
    /\ (CheckedOn(<<"*.example.com">>) /\ ~ctx.UnsafeInline /\ ~ctx.UnsafeEval
          /\ ctx.URL.Host = "sub.example.com" /\ ctx.URL.Scheme # "") => allowed
    /\ (CheckedOn(<<"*.example.com">>)
          /\ ctx.URL.Host \in {"example.com", "evil-example.com"}) => ~allowed
    /\ (CheckedOn(<<"example.com">>) /\ ~ctx.UnsafeInline /\ ~ctx.UnsafeEval
          /\ ctx.URL.Host = "example.com" /\ ctx.URL.Scheme # "") => allowed

C9_Witness ==
    /\ CheckedOn(<<"*.example.com">>)
    /\ ~ctx.UnsafeInline /\ ~ctx.UnsafeEval
    /\ ctx.URL.Host = "sub.example.com" /\ ctx.URL.Scheme = "http"
    /\ allowed

\* C10, as claimed: for a directive whose sources are all nonce tokens, a
\* context with a registered non-empty nonce is allowed, inline or not, and
\* every context with an empty nonce is rejected.  The contexts are those
\* with unsafe_eval = false, which leaves the eval rule out of the matter.
IsNonceToken(t) == HasPrefix(t, "'nonce-") /\ HasSuffix(t, "'")

AllNonceTokens(list) == \A i \in 1..Len(list) : IsNonceToken(list[i])

C10_Claimed ==
    (CheckedParsed /\ AllNonceTokens(sources) /\ ~ctx.UnsafeEval)
    => /\ (ctx.Nonce # "" /\ ctx.Nonce \in rule.Nonces) => allowed
       /\ ctx.Nonce = "" => ~allowed


(***************************************************************************)
(* Claims about Policy.Directive, under SpecPolicy.                        *)
(***************************************************************************)
\* a Check of a context has been made on the rule resolved for name
CheckedResolved == pc = "resolved" /\ ctx # NoContext

\* the policy string as written: the fields of each of its definitions
Written(str) ==
    LET defs == Split(str, ";")
    IN  [i \in 1..Len(defs) |-> Fields(defs[i])]

\* the definitions that begin with the name n
DefsOf(w, n) == { i \in 1..Len(w) : w[i] # <<>> /\ w[i][1] = n }

Defined(w, n) == DefsOf(w, n) # {}

\* the rule written for n: its last definition's sources, parsed
RuleOf(w, n) ==
    LET last == CHOOSE k \in DefsOf(w, n) : \A m \in DefsOf(w, n) : m <= k
    IN  ParseSourceDirective(Tail(w[last])).s

\* C3: Policy.Directive(name) is the rule the policy defines for name when
\* it defines one; else, for frame-ancestors, a rule that allows every
\* context; else the rule the policy defines for default-src when it defines
\* one, with the same Check result on every context.
C3_DirectivePrecedence ==
    CheckedResolved =>
        LET w == Written(policy)
        IN  IF Defined(w, name)
            THEN rule = RuleOf(w, name) /\ allowed = Check(rule, ctx)
            ELSE IF name = "frame-ancestors"
            THEN allowed
            ELSE Defined(w, "default-src") =>
                    /\ rule = RuleOf(w, "default-src")
                    /\ allowed = Check(p.Directives["default-src"], ctx)

C3_Witness ==
    /\ CheckedResolved
    /\ name = "frame-ancestors"
    /\ "frame-ancestors" \notin DOMAIN p.Directives
    /\ "default-src" \in DOMAIN p.Directives
    /\ ~Check(p.Directives["default-src"], ctx)
    /\ allowed

\* the policy defines neither the resolved name nor default-src, and the
\* name is not frame-ancestors
Unconstrained ==
    LET w == Written(policy)
    IN  /\ name # "frame-ancestors"
        /\ ~Defined(w, name)
        /\ ~Defined(w, "default-src")

C5_Claimed ==
    (CheckedResolved /\ ~Defined(Written(policy), name)
        /\ ~Defined(Written(policy), "default-src"))
    => ~allowed


(***************************************************************************)
(* Claims about ValidatePage, under SpecPage.                              *)
(***************************************************************************)
Validated == pc = "validated"

HttpImage == Element("img", "", "http://example.com/x.png", "", "", "", <<>>)

InDocument(e) == \E i \in 1..Len(doc) : doc[i] = e

\* C6, as claimed: under the policy block-all-mixed-content alone, on an
\* https page, an image with an http src on the page's host is checked with
\* its scheme left http and is rejected: the page does not pass and a
\* report names the image.
C6_Claimed ==
    (Validated /\ policy = "block-all-mixed-content" /\ page.Scheme = "https"
        /\ InDocument(HttpImage))
    => /\ \A i \in 1..Len(result.checks) :
            result.checks[i].elem = HttpImage
                => result.checks[i].ctx.URL.Scheme = "http"
       /\ ~result.valid
       /\ \E i \in 1..Len(result.reports) :
            result.reports[i].Blocked = "http://example.com/x.png"

\* the URL that the src of element e resolves to on the page
Resolved(e) == ResolveReference(page, URLParse(e.src).u)

\* whether the policy string holds the flag directive n
Flag(n) == Defined(Written(policy), n)

Malformed(w) ==
    \E i \in 1..Len(w) :
        \/ w[i] = <<>>
        \/ /\ w[i] # <<>>
           /\ \/ w[i][1] \notin SourceDirectiveNames \cup
                    {"report-uri", "upgrade-insecure-requests",
                     "block-all-mixed-content"}
              \/ w[i][1] = "report-uri" /\ Len(w[i]) # 2
              \/ /\ w[i][1] \in {"upgrade-insecure-requests",
                                 "block-all-mixed-content"}
                 /\ Len(w[i]) # 1
              \/ /\ w[i][1] \in SourceDirectiveNames
                 /\ Len(w[i]) > 2
                 /\ \E k \in 2..Len(w[i]) : w[i][k] = "'none'"

\* a rule that has 'none' and nothing else
OnlyNone(d) == d = [EmptySourceDirective EXCEPT !.None = TRUE, !.ruleCount = 1]

\* C11: ParsePolicy returns an error for every malformed policy string, an
\* error comes with the empty Policy, and every rule of a Policy parsed
\* without error that has 'none' has nothing else.
C11_ParseErrors ==
    pc = "policy" =>
        /\ Malformed(Written(policy)) => policyErr
        /\ policyErr => p = EmptyPolicy
        /\ ~policyErr =>
              \A n \in DOMAIN p.Directives :
                  p.Directives[n].None => OnlyNone(p.Directives[n])

\* a policy whose second definition is malformed has been parsed
C11_Witness ==
    /\ pc = "policy"
    /\ policy = "default-src 'self'; bogus-src *"
    /\ policyErr
    /\ p = EmptyPolicy


(***************************************************************************)
(* Claims about inline content, under SpecSource.                          *)
(***************************************************************************)
\* C13: on a directive without 'none' and an inline context with
\* unsafe_eval = false, Check returns true exactly when the directive has
\* 'unsafe-inline' and no nonce, or the nonce of the context is registered,
\* or the body matches a registered hash; 'self', scheme and host rules
\* make no difference.
C13_InlineIff ==
    (CheckedParsed /\ ~rule.None /\ ctx.UnsafeInline /\ ~ctx.UnsafeEval) =>
        (allowed <=>
            \/ rule.UnsafeInline /\ rule.Nonces = {}
            \/ ctx.Nonce \in rule.Nonces
            \/ ~NoHashMatches(ctx))

\* an inline context of the page's own origin was rejected by 'self' and a
\* host pattern that matches its URL
C13_Witness ==
    /\ CheckedOn(<<"'self'", "example.com">>)
    /\ ctx.UnsafeInline /\ ~ctx.UnsafeEval
    /\ SameOrigin(ctx)
    /\ HostAllowed(rule, ctx)
    /\ ~allowed


(***************************************************************************)
(* Claims about unquoted source tokens, under SpecSource.                  *)
(***************************************************************************)
\* a non-empty run of word characters
Word(t) == Len(t) > 0 /\ \A i \in 1..Len(t) : CharAt(t, i) \in WordChars

\* a non-empty run of digits
Digits(t) ==
    /\ Len(t) > 0
    /\ \A i \in 1..Len(t) :
          CharAt(t, i) \in {"0", "1", "2", "3", "4", "5", "6", "7", "8", "9"}

\* the parts of the grammar [scheme://]host[.host]*[:port|:*]
SchemePart(t) ==
    \/ t = ""
    \/ \E n \in 1..Len(t) :
          /\ SubSeq(t, 1, n) = "*" \/ Word(SubSeq(t, 1, n))
          /\ From(t, n + 1) \in {":", "://"}

HostPart(t) ==
    LET labels == Split(t, ".")
    IN  /\ labels[1] = "*" \/ Word(labels[1])
        /\ \A i \in 2..Len(labels) : Word(labels[i])

PortPart(t) ==
    \/ t = ""
    \/ HasPrefix(t, ":") /\ (From(t, 2) = "*" \/ Digits(From(t, 2)))

\* the whole token is of the host/scheme grammar
Grammar(t) ==
    \E i, j \in 0..Len(t) :
        /\ i <= j
        /\ SchemePart(SubSeq(t, 1, i))
        /\ HostPart(SubSeq(t, i + 1, j))
        /\ PortPart(From(t, j + 1))

\* an unquoted token that is neither a scheme nor of the grammar
UnknownSource(t) ==
    /\ ~(HasPrefix(t, "'") /\ HasSuffix(t, "'"))
    /\ ~HasSuffix(t, ":")
    /\ ~Grammar(t)

\* C14, as claimed: a source list that holds an unquoted token which
\* neither ends in ':' nor is of the host/scheme grammar is refused with an
\* error, so that only tokens of the grammar become host patterns.
C14_Claimed ==
    (pc = "parsed" /\ \E i \in 1..Len(sources) : UnknownSource(sources[i]))
        => ruleErr


(***************************************************************************)
(* Claims about the stylesheets of a page, under SpecPage.                 *)
(***************************************************************************)
ImportStyle ==
    Element("style", "", "", "", "", "@import url('blah.css')",
            <<ImportRule("url('blah.css')")>>)

FontStyle ==
    Element("style", "", "", "", "",
            "@font-face { font-family: \"Open Sans\"; src: local(x), url(http://example.com/f.woff) format(\"woff\") }",
            <<FontFaceRule("local(x), url(http://example.com/f.woff) format(\"woff\")")>>)

\* the Checks made on the URLs of the stylesheet of element e
CssChecks(e) ==
    SelectSeq(result.checks, LAMBDA k : k.elem = e /\ k.from = "css")

\* the one URL of each of the two stylesheets, resolved on the page by hand,
\* and the directive it is due to be checked against
ExpectedName(e) == IF e = ImportStyle THEN "style-src" ELSE "font-src"

ExpectedURL(e) ==
    IF e = ImportStyle
    THEN [Scheme |-> page.Scheme, Host |-> "example.com", Path |-> "/blah.css"]
    ELSE [Scheme |-> "http", Host |-> "example.com", Path |-> "/f.woff"]

\* C12: when ValidatePage returns without error, the stylesheet of each
\* inline style element has had its @import URL resolved on the page and
\* checked against the rule for style-src, its @font-face src URL resolved
\* and checked against the rule for font-src, its local(...) entry not
\* checked, and the reports are one for every Check that failed: those of
\* the stylesheet URLs beside those of the elements themselves.
C12_StylesheetScan ==
    (Validated /\ result.err = "") =>
        /\ \A e \in {ImportStyle, FontStyle} :
              InDocument(e) =>
                  /\ Len(CssChecks(e)) = 1
                  /\ CssChecks(e)[1].name = ExpectedName(e)
                  /\ CssChecks(e)[1].ctx =
                        [ZeroContext(page) EXCEPT !.URL = ExpectedURL(e)]
                  /\ CssChecks(e)[1].allowed =
                        Check(Directive(p, ExpectedName(e)), CssChecks(e)[1].ctx)
        /\ Len(result.reports) =
              Cardinality({ i \in 1..Len(result.checks) : ~result.checks[i].allowed })
        /\ \A i \in 1..Len(result.checks) :
              (result.checks[i].from = "css" /\ ~result.checks[i].allowed) =>
                  \E j \in 1..Len(result.reports) :
                      /\ result.reports[j].Context = result.checks[i].ctx
                      /\ result.reports[j].DirectiveName = result.checks[i].name

\* under default-src 'self' on the https page the style element with the
\* @font-face rule is reported once for itself and once for its http font
C12_Witness ==
    /\ Validated
    /\ policy = "default-src 'self'"
    /\ page.Scheme = "https"
    /\ doc = <<FontStyle>>
    /\ result.err = ""
    /\ Len(result.reports) = 2
    /\ result.reports[2].DirectiveName = "font-src"
    /\ result.reports[2].Blocked = "http://example.com/f.woff"


(***************************************************************************)
(* Claims about ValidateStylesheet, under SpecSheet.                       *)
(***************************************************************************)
Scanned == pc = "scanned"

\* C15, as claimed: a URL taken from a stylesheet is checked as the src of
\* an element is, the mixed-content upgrade included: on an https page
\* under upgrade-insecure-requests no Check is made on an http URL.
C15_Claimed ==
    (Scanned /\ page.Scheme = "https" /\ Flag("upgrade-insecure-requests")) =>
        \A i \in 1..Len(sheet.checks) : sheet.checks[i].ctx.URL.Scheme # "http"

\* the malformed resource references: an @import without prelude, an
\* @import or @font-face src that is neither url(...) nor a quoted string,
\* an empty @font-face src and one with an empty component
MalformedRules ==
    { ImportRule(""), ImportRule("blah.css"), FontFaceRule("f.woff"),
      FontFaceRule(""), FontFaceRule("url(/f.woff),") }

\* C16, as claimed: on a stylesheet with a malformed resource reference
\* ValidateStylesheet returns (false, nil, err) with an error, and never
\* ends in a crash.
C16_Claimed ==
    (Scanned /\ \E i \in 1..Len(css) : css[i] \in MalformedRules) =>
        /\ sheet.err \notin {"", "panic"}
        /\ ~sheet.valid
        /\ sheet.reports = <<>>


(***************************************************************************)
(* Claims about the errors of ValidatePage, under SpecPage.                *)
(***************************************************************************)
\* the script elements whose src url.Parse refuses
BadScripts ==
    { Element("script", "", ":a", "", "", "", <<>>),
      Element("script", "", ":b", "", "", "", <<>>) }

\* C17, as claimed: when the first element of the document is a script
\* whose src cannot be parsed, ValidatePage returns (false, nil, err) with
\* the error of that element, and no later script element is evaluated.
C17_Claimed ==
    (Validated /\ doc # <<>> /\ Head(doc) \in BadScripts) =>
        /\ result.err = ParseError(Head(doc).src)
        /\ ~result.valid
        /\ result.reports = <<>>
        /\ \A i \in 2..Len(doc) :
              doc[i].tag = "script" =>
                  \A k \in 1..Len(result.checks) : result.checks[k].elem # doc[i]

=============================================================================
